---- MODULE Spec2Model ----
(***************************************************************************)
(* Model of InstructionParser (src/aoc_utils.py): the rule compiler        *)
(* (__init__), the line matcher (match) and the batch helpers (match_list, *)
(* match_block).                                                           *)
(*                                                                         *)
(* A Python str is modelled as a sequence of one-character strings, so     *)
(* that strip, split, replace, re.split and the regular-expression match   *)
(* are computed character by character, as the library computes them.      *)
(***************************************************************************)
EXTENDS Integers, Sequences, FiniteSets, TLC

VARIABLES code, inputs, asDict, pc, rules, raised, call, ret

vars == <<code, inputs, asDict, pc, rules, raised, call, ret>>

(***************************************************************************)
(* Bounds of the model.                                                    *)
(***************************************************************************)
\* most lines in a rule-set source text
MaxRules == 3
\* longest input line matched against a generated template
MaxLen == 3
\* most lines in a batch handed to match_list / match_block
MaxBatch == 2

(***************************************************************************)
(* Characters.                                                             *)
(***************************************************************************)
NL == "\n"
BACKSLASH == "\\"

\* whitespace removed by str.strip()
WHITESPACE == {" ", NL, "\t", "\r"}

\* the regular-expression class [a-z]
LOWER ==
  {"a","b","c","d","e","f","g","h","i","j","k","l","m",
   "n","o","p","q","r","s","t","u","v","w","x","y","z"}

\* the regular-expression class [0-9], in order of value
DIGITS == <<"0","1","2","3","4","5","6","7","8","9">>

DIGIT == {DIGITS[k] : k \in 1..Len(DIGITS)}

\* the value of a decimal digit character
DigitVal(c) == (CHOOSE k \in 1..Len(DIGITS) : DIGITS[k] = c) - 1

SPECIAL_CHARS ==
  <<BACKSLASH, "[", "]", "(", ")", "{", "}", "*", "+", "?", "|", "^", "$", ".">>

\* the dict key "rule"
RULE == <<"r","u","l","e">>

(***************************************************************************)
(* Python string operations.                                               *)
(***************************************************************************)
Drop(s, n) == SubSeq(s, n + 1, Len(s))

Take(s, n) == SubSeq(s, 1, n)

\* sep occurs in s at position i
OccursAt(s, sep, i) ==
  /\ i + Len(sep) - 1 <= Len(s)
  /\ \A k \in 1..Len(sep) : s[i + k - 1] = sep[k]

\* str.find: the first position where sep occurs in s, 0 when there is none
Find(s, sep) ==
  IF \E i \in 1..Len(s) : OccursAt(s, sep, i)
  THEN CHOOSE i \in 1..Len(s) :
         /\ OccursAt(s, sep, i)
         /\ \A j \in 1..(i - 1) : ~OccursAt(s, sep, j)
  ELSE 0

RECURSIVE Split(_, _)
\* str.split(sep) for a non-empty sep: the list of pieces, empty ones kept
Split(s, sep) ==
  LET i == Find(s, sep)
  IN IF i = 0 THEN <<s>>
     ELSE <<Take(s, i - 1)>> \o Split(Drop(s, i + Len(sep) - 1), sep)

RECURSIVE Join(_, _)
\* sep.join(parts)
Join(sep, parts) ==
  IF Len(parts) = 0 THEN <<>>
  ELSE IF Len(parts) = 1 THEN parts[1]
  ELSE parts[1] \o sep \o Join(sep, Tail(parts))

RECURSIVE LStrip(_)
LStrip(s) ==
  IF Len(s) > 0 /\ s[1] \in WHITESPACE THEN LStrip(Tail(s)) ELSE s

RECURSIVE RStrip(_)
RStrip(s) ==
  IF Len(s) > 0 /\ s[Len(s)] \in WHITESPACE THEN RStrip(Take(s, Len(s) - 1)) ELSE s

\* str.strip()
Strip(s) == RStrip(LStrip(s))

RECURSIVE Replace(_, _, _)
\* str.replace(c, r) for a one-character c
Replace(s, c, r) ==
  IF Len(s) = 0 THEN <<>>
  ELSE (IF s[1] = c THEN r ELSE <<s[1]>>) \o Replace(Tail(s), c, r)

RECURSIVE EscapeFrom(_, _)
\* for c in SPECIAL_CHARS: template = template.replace(c, "\\" + c)
EscapeFrom(template, k) ==
  IF k > Len(SPECIAL_CHARS) THEN template
  ELSE EscapeFrom(Replace(template, SPECIAL_CHARS[k], <<BACKSLASH, SPECIAL_CHARS[k]>>), k + 1)

Escape(template) == EscapeFrom(template, 1)

(***************************************************************************)
(* The placeholder expression  %[a-z][a-z0-9_]*:[wpni]                     *)
(***************************************************************************)
MODES == {"w", "p", "n", "i"}

IdentChar(c) == c \in LOWER \/ c \in DIGIT \/ c = "_"

RECURSIVE IdentRun(_, _)
\* the length of the longest run of [a-z0-9_] in s from position i
IdentRun(s, i) ==
  IF i <= Len(s) /\ IdentChar(s[i]) THEN 1 + IdentRun(s, i + 1) ELSE 0

\* the length of the placeholder that starts at position i of s, 0 if none
\* does.  ":" is not in [a-z0-9_], so the greedy run never has to give back.
PlaceholderAt(s, i) ==
  IF /\ i + 3 <= Len(s)
     /\ s[i] = "%"
     /\ s[i + 1] \in LOWER
  THEN LET run == IdentRun(s, i + 2)
           colon == i + 2 + run
       IN IF /\ colon + 1 <= Len(s)
             /\ s[colon] = ":"
             /\ s[colon + 1] \in MODES
          THEN colon + 2 - i
          ELSE 0
  ELSE 0

RECURSIVE ReSplitFrom(_, _, _)
\* re.split(r"(%[a-z][a-z0-9_]*:[wpni])", s): the text before the first
\* placeholder, the placeholder, the text up to the next one, ..., the rest;
\* empty pieces are kept.  start is where the current literal piece began.
ReSplitFrom(s, start, i) ==
  IF i > Len(s) THEN <<SubSeq(s, start, Len(s))>>
  ELSE LET n == PlaceholderAt(s, i)
       IN IF n = 0 THEN ReSplitFrom(s, start, i + 1)
          ELSE <<SubSeq(s, start, i - 1), SubSeq(s, i, i + n - 1)>>
               \o ReSplitFrom(s, i + n, i + n)

ReSplit(s) == ReSplitFrom(s, 1, 1)

\* re.fullmatch(r"%([a-z][a-z0-9_]*):([wpni])", t) is not None
IsPlaceholder(t) == Len(t) > 0 /\ PlaceholderAt(t, 1) = Len(t)

\* the groups of that match: the identifier and the type character
PlaceholderRule(t) == SubSeq(t, 2, Len(t) - 2)

PlaceholderMode(t) == t[Len(t)]

(***************************************************************************)
(* The compiled pattern.  The code collects the pieces of the expression   *)
(* in the list `pattern` and compiles their concatenation; the model keeps *)
(* the list: a piece is escaped literal text (text) or one of the fixed    *)
(* fragments the code appends (re).                                        *)
(***************************************************************************)
Lit(t) == [kind |-> "lit", text |-> t, re |-> ""]

Re(r) == [kind |-> "re", text |-> <<>>, re |-> r]

\* the fragment appended for a type character ("" : the mode is not supported)
ModeFragment(mode) ==
  IF mode = "p" THEN "([a-z]+(?: [a-z]+)*)"
  ELSE IF mode = "w" THEN "([a-z]+)"
  ELSE IF mode = "n" THEN "([0-9]+)"
  ELSE IF mode = "i" THEN "(-?[0-9]+)"
  ELSE ""

NoError == [type |-> "none", line |-> <<>>]

\* an exception: its class and the text interpolated into its message
Error(type, line) == [type |-> type, line |-> line]

RECURSIVE CompileTokens(_, _, _, _)
\* for t in tokens: ... ; the result is the exception raised, if any, and
\* the lists `variables` and `pattern` built so far
CompileTokens(tokens, k, variables, pattern) ==
  IF k > Len(tokens)
  THEN [raised |-> NoError, variables |-> variables, pattern |-> pattern]
  ELSE LET t == tokens[k]
       IN IF Len(t) = 0
          THEN CompileTokens(tokens, k + 1, variables, pattern)
          ELSE IF t[1] # "%"
          THEN CompileTokens(tokens, k + 1, variables, Append(pattern, Lit(t)))
          ELSE IF ~IsPlaceholder(t)
          \* re.fullmatch returns None and None has no .groups()
          THEN [raised |-> Error("AttributeError", <<>>),
                variables |-> variables, pattern |-> pattern]
          ELSE LET rule == PlaceholderRule(t)
                   mode == PlaceholderMode(t)
               IN IF ModeFragment(mode) = ""
                  THEN [raised |-> Error("ValueError", <<mode>>),
                        variables |-> variables, pattern |-> pattern]
                  ELSE CompileTokens(tokens, k + 1,
                                     Append(variables, <<rule, mode>>),
                                     Append(pattern, Re(ModeFragment(mode))))

\* the body of the loop of __init__ for one line l: the exception raised, if
\* any, and the rule (name, variables, compiled pattern) appended to rules
CompileLine(l) ==
  LET colon_sep == Split(l, <<":", " ">>)
      name == colon_sep[1]
      template == Escape(Join(<<":", " ">>, Tail(colon_sep)))
      tokens == ReSplit(template)
      body == CompileTokens(tokens, 1, <<>>, <<Re("^")>>)
      none == [name |-> <<>>, variables |-> <<>>, pattern |-> <<>>]
  IN IF Len(colon_sep) = 1
     \* the message names `line`, which is not defined: the f-string raises
     \* NameError before ValueError is constructed
     THEN [raised |-> Error("NameError", <<>>), rule |-> none]
     ELSE IF name = RULE
     THEN [raised |-> Error("ValueError", <<>>), rule |-> none]
     ELSE IF body.raised # NoError
     THEN [raised |-> body.raised, rule |-> none]
     ELSE [raised |-> NoError,
           rule |-> [name |-> name, variables |-> body.variables,
                     pattern |-> Append(body.pattern, Re("$"))]]

RECURSIVE CompileLines(_, _, _)
\* for l in lines: ... ; the first exception aborts the construction
CompileLines(lines, k, acc) ==
  IF k > Len(lines) THEN [raised |-> NoError, rules |-> acc]
  ELSE LET c == CompileLine(lines[k])
       IN IF c.raised # NoError THEN [raised |-> c.raised, rules |-> <<>>]
          ELSE CompileLines(lines, k + 1, Append(acc, c.rule))

\* the elements of a list of strings that are not ""
NonEmpty(lines) == SelectSeq(lines, LAMBDA s : s # <<>>)

\* a constructor that drops the empty lines of the source
CompileSkippingEmpty(source) ==
  CompileLines(NonEmpty(Split(Strip(source), <<NL>>)), 1, <<>>)

\* InstructionParser.__init__(code)
Compile(source) == CompileLines(Split(Strip(source), <<NL>>), 1, <<>>)

(***************************************************************************)
(* The regular-expression match of a compiled pattern.                     *)
(***************************************************************************)
RECURSIVE Atoms(_)
\* escaped literal text read as an expression: "\c" is the character c, "."
\* is any character but a newline, any other character is itself (Escape
\* leaves no other metacharacter unescaped)
Atoms(text) ==
  IF Len(text) = 0 THEN <<>>
  ELSE IF text[1] = BACKSLASH /\ Len(text) >= 2
  THEN <<[kind |-> "chr", c |-> text[2], re |-> ""]>> \o Atoms(Drop(text, 2))
  ELSE IF text[1] = "."
  THEN <<[kind |-> "any", c |-> "", re |-> ""]>> \o Atoms(Tail(text))
  ELSE <<[kind |-> "chr", c |-> text[1], re |-> ""]>> \o Atoms(Tail(text))

RECURSIVE Items(_)
\* "".join(pattern) as a sequence of atoms and fragments
Items(pattern) ==
  IF Len(pattern) = 0 THEN <<>>
  ELSE (IF pattern[1].kind = "lit" THEN Atoms(pattern[1].text)
        ELSE <<[kind |-> "re", c |-> "", re |-> pattern[1].re]>>)
       \o Items(Tail(pattern))

AllIn(s, S) == \A k \in 1..Len(s) : s[k] \in S

RECURSIVE LowerRun(_)
LowerRun(s) == IF Len(s) > 0 /\ s[1] \in LOWER THEN 1 + LowerRun(Tail(s)) ELSE 0

RECURSIVE PhraseMatches(_)
\* [a-z]+(?: [a-z]+)* matches the whole of s
PhraseMatches(s) ==
  LET w == LowerRun(s)
  IN /\ w >= 1
     /\ \/ w = Len(s)
        \/ /\ s[w + 1] = " "
           /\ PhraseMatches(Drop(s, w + 1))

\* a matcher whose phrase is [a-z ]+, as the class docstring has it
GroupMatchesDocstring(re, s) ==
  IF re = "([a-z]+(?: [a-z]+)*)" THEN Len(s) >= 1 /\ AllIn(s, LOWER \cup {" "})
  ELSE IF re = "([a-z]+)" THEN Len(s) >= 1 /\ AllIn(s, LOWER)
  ELSE IF re = "([0-9]+)" THEN Len(s) >= 1 /\ AllIn(s, DIGIT)
  ELSE IF re = "(-?[0-9]+)"
  THEN LET d == IF Len(s) > 0 /\ s[1] = "-" THEN Tail(s) ELSE s
       IN Len(d) >= 1 /\ AllIn(d, DIGIT)
  ELSE FALSE

\* the group fragment re matches the whole of s
GroupMatches(re, s) ==
  IF re = "([a-z]+(?: [a-z]+)*)" THEN PhraseMatches(s)
  ELSE IF re = "([a-z]+)" THEN Len(s) >= 1 /\ AllIn(s, LOWER)
  ELSE IF re = "([0-9]+)" THEN Len(s) >= 1 /\ AllIn(s, DIGIT)
  ELSE IF re = "(-?[0-9]+)"
  THEN LET d == IF Len(s) > 0 /\ s[1] = "-" THEN Tail(s) ELSE s
       IN Len(d) >= 1 /\ AllIn(d, DIGIT)
  ELSE FALSE

NoMatch == [ok |-> FALSE, groups |-> <<>>]

RECURSIVE MatchFrom(_, _, _, _)
\* the backtracking match of items[k..] against s from position pos, which
\* must end at the end of s (fullmatch).  Every quantifier of the fragments
\* is greedy, so a group tries its longest candidate first.
MatchFrom(items, k, s, pos) ==
  IF k > Len(items)
  THEN [ok |-> pos = Len(s) + 1, groups |-> <<>>]
  ELSE LET it == items[k]
       IN IF it.kind = "chr"
          THEN IF pos <= Len(s) /\ s[pos] = it.c
               THEN MatchFrom(items, k + 1, s, pos + 1) ELSE NoMatch
          ELSE IF it.kind = "any"
          THEN IF pos <= Len(s) /\ s[pos] # NL
               THEN MatchFrom(items, k + 1, s, pos + 1) ELSE NoMatch
          ELSE IF it.re = "^"
          THEN IF pos = 1 THEN MatchFrom(items, k + 1, s, pos) ELSE NoMatch
          ELSE IF it.re = "$"
          THEN IF pos = Len(s) + 1 THEN MatchFrom(items, k + 1, s, pos) ELSE NoMatch
          ELSE LET cand == {n \in 1..(Len(s) - pos + 1) :
                              GroupMatches(it.re, SubSeq(s, pos, pos + n - 1))}
                   rest == [n \in cand |-> MatchFrom(items, k + 1, s, pos + n)]
                   good == {n \in cand : rest[n].ok}
               IN IF good = {} THEN NoMatch
                  ELSE LET n == CHOOSE m \in good : \A o \in good : o <= m
                       IN [ok |-> TRUE,
                           groups |-> <<SubSeq(s, pos, pos + n - 1)>> \o rest[n].groups]

\* pattern.fullmatch(string): whether it matched, and match.groups()
FullMatch(pattern, string) == MatchFrom(Items(pattern), 1, string, 1)

(***************************************************************************)
(* match, match_list, match_block.                                         *)
(***************************************************************************)
\* a value stored in the result: a str (s) or an int (n)
StrVal(s) == [t |-> "str", s |-> s, n |-> 0]

IntVal(n) == [t |-> "int", s |-> <<>>, n |-> n]

RECURSIVE DecFrom(_, _)
DecFrom(s, acc) ==
  IF Len(s) = 0 THEN acc ELSE DecFrom(Tail(s), acc * 10 + DigitVal(s[1]))

\* int(s) for the text of an n or i group
PyInt(s) == IF s[1] = "-" THEN 0 - DecFrom(Tail(s), 0) ELSE DecFrom(s, 0)

\* out[k] = v
DictSet(out, k, v) ==
  [x \in (DOMAIN out) \cup {k} |-> IF x = k THEN v ELSE out[x]]

Min(a, b) == IF a <= b THEN a ELSE b

RECURSIVE Fill(_, _, _, _)
\* for ((var_name, mode), var_value) in zip(variables, match.groups()): ...
Fill(out, variables, groups, k) ==
  IF k > Min(Len(variables), Len(groups)) THEN [raised |-> NoError, out |-> out]
  ELSE LET var_name == variables[k][1]
           mode == variables[k][2]
           var_value == groups[k]
       IN IF mode = "p" \/ mode = "w"
          THEN Fill(DictSet(out, var_name, StrVal(var_value)), variables, groups, k + 1)
          ELSE IF mode = "n" \/ mode = "i"
          THEN Fill(DictSet(out, var_name, IntVal(PyInt(var_value))), variables, groups, k + 1)
          ELSE [raised |-> Error("ValueError", <<mode>>), out |-> out]

\* what a call of match gives back: the exception it raised, or the dict it
\* returned, bare (shape "dict") or wrapped in a DataObj
Raise(e) == [raised |-> e, shape |-> "", out |-> <<>>]

Return(as_dict, out) ==
  [raised |-> NoError, shape |-> IF as_dict THEN "dict" ELSE "DataObj", out |-> out]

RECURSIVE MatchFromRule(_, _, _, _)
\* the loop of match over rs[k..]
MatchFromRule(rs, k, string, as_dict) ==
  IF k > Len(rs) THEN Raise(Error("ValueError", string))
  ELSE LET m == FullMatch(rs[k].pattern, string)
       IN IF ~m.ok THEN MatchFromRule(rs, k + 1, string, as_dict)
          ELSE LET f == Fill([x \in {RULE} |-> StrVal(rs[k].name)],
                             rs[k].variables, m.groups, 1)
               IN IF f.raised # NoError THEN Raise(f.raised)
                  ELSE Return(as_dict, f.out)

\* a match whose raise sits inside the loop: it gives up after the first rule
MatchFirstRuleOnly(rs, string, as_dict) ==
  IF Len(rs) = 0 \/ ~FullMatch(rs[1].pattern, string).ok
  THEN Raise(Error("ValueError", string))
  ELSE MatchFromRule(rs, 1, string, as_dict)

\* InstructionParser.match(string, as_dict) on the rule list rs
Match(rs, string, as_dict) == MatchFromRule(rs, 1, string, as_dict)

RECURSIVE MatchEach(_, _, _, _)
\* [self.match(s, as_dict) for s in l]: the first exception ends the
\* comprehension and the list built so far is lost
MatchEach(rs, l, as_dict, acc) ==
  IF Len(l) = 0 THEN [raised |-> NoError, list |-> acc]
  ELSE LET r == Match(rs, l[1], as_dict)
       IN IF r.raised # NoError THEN [raised |-> r.raised, list |-> <<>>]
          ELSE MatchEach(rs, Tail(l), as_dict, Append(acc, r))

RECURSIVE MatchEachSkipping(_, _, _, _)
MatchEachSkipping(rs, l, as_dict, acc) ==
  IF Len(l) = 0 THEN [raised |-> NoError, list |-> acc]
  ELSE LET r == Match(rs, l[1], as_dict)
       IN IF r.raised # NoError THEN MatchEachSkipping(rs, Tail(l), as_dict, acc)
          ELSE MatchEachSkipping(rs, Tail(l), as_dict, Append(acc, r))

\* a match_list that leaves out the lines no rule matches
MatchListSkipping(rs, l, as_dict) == MatchEachSkipping(rs, l, as_dict, <<>>)

\* InstructionParser.match_list(l, as_dict)
MatchList(rs, l, as_dict) == MatchEach(rs, l, as_dict, <<>>)

\* InstructionParser.match_block(b, as_dict)
MatchBlock(rs, b, as_dict) == MatchEach(rs, NonEmpty(Split(b, <<NL>>)), as_dict, <<>>)

(***************************************************************************)
(* Inputs.                                                                 *)
(***************************************************************************)
\* all sequences over S of length lo..hi
SeqsOf(S, lo, hi) == UNION {[1..n -> S] : n \in lo..hi}

\* the lines a rule-set source is made of: three rules that all accept "a",
\* an empty line and a line without ": "
RuleLines ==
  { <<"m", ":", " ", "a">>,
    <<"w", ":", " ", "%", "x", ":", "w">>,
    <<"r", ":", " ", "%", "r", "u", "l", "e", ":", "p">>,
    <<>>,
    <<"a">> }

Sources == {Join(<<NL>>, ls) : ls \in SeqsOf(RuleLines, 1, MaxRules)}

\* the lines of a batch: accepted by all three rules, by the last one only,
\* by none
BatchLines == { <<"a">>, <<"a", " ", "a">>, <<>> }

Batches == SeqsOf(BatchLines, 0, MaxBatch)

\* the pieces a generated template is made of: literal characters, a lone
\* "%", a placeholder of each type, or nothing
TemplatePieces ==
  { <<>>, <<"a">>, <<" ">>, <<".">>, <<"%">>,
    <<"%", "x", ":", "w">>, <<"%", "x", ":", "p">>,
    <<"%", "y", ":", "n">>, <<"%", "y", ":", "i">> }

\* the templates of up to two pieces
Templates == {p \o q : p \in TemplatePieces, q \in TemplatePieces}

\* the one-rule source  <name>: <template>
RuleSource(name, template) == name \o <<":", " ">> \o template

TemplateSources == {RuleSource(name, t) : name \in {<<"m">>, RULE}, t \in Templates}

\* the characters of input lines
LineChars == {"a", " ", "-", "0", "5", "."}

Lines == SeqsOf(LineChars, 0, MaxLen)

(***************************************************************************)
(* The state machine.  code is the source text handed to the constructor;  *)
(* pc tells whether the parser is not yet constructed ("new"), constructed *)
(* ("ready") or its construction raised ("failed"); rules is self.rules    *)
(* and raised the exception of the constructor.  The caller then obtains   *)
(* the lines to match (inputs) and the flag as_dict (asDict) and calls the *)
(* matching methods on them, in any order and any number of times; call is *)
(* the last call and ret what it gave back.                                *)
(***************************************************************************)
NoCall == [op |-> "none", arg |-> <<>>]

NoRet == [raised |-> NoError]

\* inputs before the caller has any: no line holds a newline
NoInputs == << <<NL>> >>

InitWith(S) ==
  /\ code \in S
  /\ inputs = NoInputs
  /\ asDict = FALSE
  /\ pc = "new"
  /\ rules = <<>>
  /\ raised = NoError
  /\ call = NoCall
  /\ ret = NoRet

\* a rule set of up to MaxRules lines
Init == InitWith(Sources)

\* one generated rule
InitTemplate == InitWith(TemplateSources)

\* parser = InstructionParser(code)
Construct ==
  /\ pc = "new"
  /\ LET c == Compile(code)
     IN /\ pc' = IF c.raised = NoError THEN "ready" ELSE "failed"
        /\ rules' = c.rules
        /\ raised' = c.raised
  /\ UNCHANGED <<code, inputs, asDict, call, ret>>

\* the caller obtains the lines and the flag it will match with
ReceiveFrom(L, D) ==
  /\ pc = "ready"
  /\ inputs = NoInputs
  /\ inputs' \in L
  /\ asDict' \in D
  /\ UNCHANGED <<code, pc, rules, raised, call, ret>>

\* a batch of up to MaxBatch lines
Receive == ReceiveFrom(Batches, BOOLEAN)

\* one line of up to MaxLen characters
ReceiveLine == ReceiveFrom({<<string>> : string \in Lines}, {TRUE})

\* the rule list with its k-th rule moved to the front
MoveToFront(rs, k) ==
  <<rs[k]>> \o SubSeq(rs, 1, k - 1) \o SubSeq(rs, k + 1, Len(rs))

\* a match that moves the rule it matched to the front of self.rules
MatchCallMovingToFront ==
  \E k \in 1..Len(inputs) :
    /\ pc = "ready"
    /\ inputs # NoInputs
    /\ call' = [op |-> "match", arg |-> inputs[k]]
    /\ ret' = Match(rules, inputs[k], asDict)
    /\ rules' = LET hit == {j \in 1..Len(rules) : FullMatch(rules[j].pattern, inputs[k]).ok}
                IN IF hit = {} THEN rules
                   ELSE MoveToFront(rules, CHOOSE j \in hit : \A o \in hit : j <= o)
    /\ UNCHANGED <<code, inputs, asDict, pc, raised>>

\* parser.match(string, as_dict) for a line string of inputs
MatchCall ==
  \E k \in 1..Len(inputs) :
    /\ pc = "ready"
    /\ inputs # NoInputs
    /\ call' = [op |-> "match", arg |-> inputs[k]]
    /\ ret' = Match(rules, inputs[k], asDict)
    /\ rules' = rules
    /\ UNCHANGED <<code, inputs, asDict, pc, raised>>

\* parser.match_list(l, as_dict) for l = inputs
MatchListCall ==
  /\ pc = "ready"
  /\ inputs # NoInputs
  /\ call' = [op |-> "match_list", arg |-> inputs]
  /\ ret' = MatchList(rules, inputs, asDict)
  /\ rules' = rules
  /\ UNCHANGED <<code, inputs, asDict, pc, raised>>

\* parser.match_block(b, as_dict) for the block b = "\n".join(inputs)
MatchBlockCall ==
  /\ pc = "ready"
  /\ inputs # NoInputs
  /\ call' = [op |-> "match_block", arg |-> Join(<<NL>>, inputs)]
  /\ ret' = MatchBlock(rules, Join(<<NL>>, inputs), asDict)
  /\ rules' = rules
  /\ UNCHANGED <<code, inputs, asDict, pc, raised>>

Next == Construct \/ Receive \/ MatchCall \/ MatchListCall \/ MatchBlockCall

Spec == Init /\ [][Next]_vars

NextTemplate == Construct \/ ReceiveLine \/ MatchCall

SpecTemplate == InitTemplate /\ [][NextTemplate]_vars

(***************************************************************************)
(* Vocabulary of the properties.                                           *)
(***************************************************************************)
\* the lines __init__ iterates over
SourceLines == Split(Strip(code), <<NL>>)

HasSeparator(line) == Find(line, <<":", " ">>) # 0

\* the anchored matcher of a rule accepts the whole of string
Accepts(rule, string) == FullMatch(rule.pattern, string).ok

\* the indices of the rules that accept string
Accepting(string) == {j \in 1..Len(rules) : Accepts(rules[j], string)}

Lowest(S) == CHOOSE j \in S : \A o \in S : j <= o

RECURSIVE Decimal(_)
\* the number a digit string denotes: ten times its front plus its last digit
Decimal(d) ==
  IF Len(d) = 0 THEN 0
  ELSE 10 * Decimal(Take(d, Len(d) - 1)) + DigitVal(d[Len(d)])

\* the value a captured text has under a type tag
Typed(mode, text) ==
  IF mode \in {"w", "p"} THEN StrVal(text)
  ELSE IF text[1] = "-" THEN IntVal(0 - Decimal(Tail(text)))
  ELSE IntVal(Decimal(text))

IsDigits(s) == Len(s) >= 1 /\ \A k \in 1..Len(s) : s[k] \in DIGIT

\* the texts a slot of each type is specified to accept
SlotLanguage(mode, s) ==
  IF mode = "n" THEN IsDigits(s)
  ELSE IF mode = "i"
  THEN IsDigits(s) \/ (Len(s) >= 2 /\ s[1] = "-" /\ IsDigits(Tail(s)))
  ELSE IF mode = "w"
  THEN Len(s) >= 1 /\ \A k \in 1..Len(s) : s[k] \in LOWER
  ELSE /\ Len(s) >= 1
       /\ \A k \in 1..Len(s) : s[k] \in LOWER \cup {" "}
       /\ s[1] # " "
       /\ s[Len(s)] # " "
       /\ \A k \in 1..(Len(s) - 1) : ~(s[k] = " " /\ s[k + 1] = " ")

\* the identifier the generated placeholder of a type carries
SlotName(mode) == IF mode \in {"w", "p"} THEN <<"x">> ELSE <<"y">>

SlotPlaceholder(mode) == <<"%">> \o SlotName(mode) \o <<":", mode>>

\* a template holds no well-formed placeholder
LiteralOnly(t) == \A k \in 1..Len(t) : PlaceholderAt(t, k) = 0

\* strip() leaves the one-line source of template t as it is
Unstripped(t) == Len(t) >= 1 /\ t[Len(t)] \notin WHITESPACE

Matched == call.op = "match" /\ ret.raised = NoError

\* the constructor has run and nothing has been matched yet
Constructed == pc # "new" /\ inputs = NoInputs

(***************************************************************************)
(* C1.  First-match-wins: when match succeeds, the returned `rule` value   *)
(* is the name of the lowest-indexed rule that accepts the whole line, and *)
(* every extracted variable is a variable of that rule, with the value of  *)
(* its captured group.                                                     *)
(***************************************************************************)
C1_FirstMatchWins ==
  Matched =>
    /\ Accepting(call.arg) # {}
    /\ LET r == rules[Lowest(Accepting(call.arg))]
           g == FullMatch(r.pattern, call.arg).groups
       IN /\ ret.out[RULE] = StrVal(r.name)
          /\ \A key \in (DOMAIN ret.out) \ {RULE} :
               \E v \in 1..Len(r.variables) :
                 /\ r.variables[v][1] = key
                 /\ ret.out[key] = Typed(r.variables[v][2], g[v])

(***************************************************************************)
(* C2.  A source with a line that holds no ": " makes the constructor fail *)
(* with the library's format error (a ValueError) naming that line, and no *)
(* rule set is returned.  (Stated for a first offending line that is not   *)
(* empty, so that the error has a line to name.)                           *)
(***************************************************************************)
C2_FormatError ==
  LET bad == {k \in 1..Len(SourceLines) : ~HasSeparator(SourceLines[k])}
  IN (Constructed /\ bad # {} /\ SourceLines[Lowest(bad)] # <<>>) =>
       /\ pc = "failed"
       /\ rules = <<>>
       /\ raised = Error("ValueError", SourceLines[Lowest(bad)])

(***************************************************************************)
(* C3.  In every result of match the key `rule` holds the name of the rule *)
(* that matched.                                                           *)
(***************************************************************************)
C3_RuleKey ==
  Matched =>
    /\ RULE \in DOMAIN ret.out
    /\ \E j \in Accepting(call.arg) : ret.out[RULE] = StrVal(rules[j].name)

(***************************************************************************)
(* C4.  Positional extraction: when the rule with descriptors d_1..d_k     *)
(* matches, the matcher yields k groups and the result has k entries       *)
(* besides `rule`, the identifier of d_j mapped to the j-th captured text, *)
(* typed by its tag.                                                       *)
(***************************************************************************)
C4_PositionalExtraction ==
  (Matched /\ Len(rules) = 1) =>
    LET d == rules[1].variables
        g == FullMatch(rules[1].pattern, call.arg).groups
    IN /\ Len(g) = Len(d)
       /\ Cardinality((DOMAIN ret.out) \ {RULE}) = Len(d)
       /\ \A j \in 1..Len(d) :
            /\ d[j][1] \in DOMAIN ret.out
            /\ ret.out[d[j][1]] = Typed(d[j][2], g[j])

(***************************************************************************)
(* C5 as stated.  The constructor returns one rule per non-empty line of   *)
(* the stripped source, in order: empty lines between rules are discarded. *)
(* (Stated for a source with at least one non-empty line.)                 *)
(***************************************************************************)
C5_EmptyLinesDiscarded ==
  LET ls == NonEmpty(SourceLines)
  IN (Constructed /\ ls # <<>> /\ \A k \in 1..Len(ls) : CompileLine(ls[k]).raised = NoError) =>
       /\ pc = "ready"
       /\ Len(rules) = Len(ls)
       /\ \A k \in 1..Len(ls) : rules[k] = CompileLine(ls[k]).rule

(***************************************************************************)
(* C5 as amended.  The constructor strips the source and splits it on      *)
(* newlines; when it returns, the rule set holds one rule per line, in     *)
(* line order, named by the text before the line's first ": "; an empty    *)
(* line between rules is not discarded: it makes the constructor fail and  *)
(* no rule set is returned.                                                *)
(***************************************************************************)
C5_OneRulePerLine ==
  Constructed =>
    /\ pc = "ready" =>
         /\ Len(rules) = Len(SourceLines)
         /\ \A k \in 1..Len(SourceLines) :
              /\ rules[k].name = Take(SourceLines[k], Find(SourceLines[k], <<":", " ">>) - 1)
              /\ rules[k] = CompileLine(SourceLines[k]).rule
    /\ (\E k \in 1..Len(SourceLines) : SourceLines[k] = <<>>) =>
         (pc = "failed" /\ rules = <<>>)

\* an empty line between two well-formed rules made the constructor fail
C5_Witness ==
  /\ pc = "failed"
  /\ Len(SourceLines) = 3
  /\ SourceLines[2] = <<>>
  /\ CompileLine(SourceLines[1]).raised = NoError
  /\ CompileLine(SourceLines[3]).raised = NoError

(***************************************************************************)
(* C6.  match raises the no-match error, naming the line, exactly when no  *)
(* rule of the rule set accepts the whole line, and then it returns no     *)
(* result.                                                                 *)
(***************************************************************************)
C6_NoMatch ==
  call.op = "match" =>
    IF Accepting(call.arg) = {}
    THEN ret = Raise(Error("ValueError", call.arg))
    ELSE ret.raised = NoError /\ RULE \in DOMAIN ret.out

\* a line that two rules both reject
C6_Witness ==
  /\ call.op = "match"
  /\ Len(rules) = 2
  /\ call.arg = <<"a", " ", "a">>
  /\ ret.raised = Error("ValueError", call.arg)

(***************************************************************************)
(* C7.  match_list: if every line matches some rule, the result has the    *)
(* length of the list and its i-th element is match(line_i); if some line  *)
(* matches no rule, the call raises the error of the first such line and   *)
(* returns no list.                                                        *)
(***************************************************************************)
C7_MatchList ==
  call.op = "match_list" =>
    LET each == [k \in 1..Len(call.arg) |-> Match(rules, call.arg[k], asDict)]
        bad == {k \in 1..Len(call.arg) : each[k].raised # NoError}
    IN IF bad = {}
       THEN /\ ret.raised = NoError
            /\ Len(ret.list) = Len(call.arg)
            /\ \A k \in 1..Len(call.arg) : ret.list[k] = each[k]
       ELSE /\ ret.raised = Error("ValueError", call.arg[Lowest(bad)])
            /\ ret.list = <<>>

\* the first line matched, the second did not, and the batch failed
C7_Witness ==
  /\ call.op = "match_list"
  /\ Len(call.arg) = 2
  /\ Accepting(call.arg[1]) # {}
  /\ Accepting(call.arg[2]) = {}
  /\ ret.raised = Error("ValueError", call.arg[2])

C9_LiteralTemplate ==
  \A t \in Templates :
    (code = RuleSource(<<"m">>, t) /\ Unstripped(t) /\ LiteralOnly(t) /\ pc # "new") =>
      /\ pc = "ready"
      /\ call.op = "match" => (ret.raised = NoError <=> call.arg = t)

====
